---------------------------- MODULE Spec2Model ----------------------------
(***************************************************************************)
(* The master role of the elevator fleet: InitMaster (phase A, awaiting a  *)
(* backup) and masterLoop (phase B, active), with the order reconciliation *)
(* of updateOrders, the alive-timers of the slave records and the          *)
(* backupDeadline timer.                                                   *)
(***************************************************************************)
EXTENDS Integers, Sequences, FiniteSets, TLC

(***************************************************************************)
(* Bounds of the model.                                                    *)
(***************************************************************************)
\* floors are 0 .. MaxFloor
MaxFloor == 0
\* longest batch of requests in one slave message
MaxRequests == 2

(***************************************************************************)
(* Addresses, buttons, orders.                                             *)
(***************************************************************************)
\* network.GetOwnIP(): the address of the machine the master runs on
myIP == "A"
\* the addresses slave messages come from: the own slave and remote ones
AddrOrder == <<"A", "B", "C">>
Addr == {AddrOrder[i] : i \in 1 .. Len(AddrOrder)}
\* the zero value of network.IP: an order nobody has taken
NoIP == "none"

ButtonCallUp == "HallUp"
ButtonCallDown == "HallDown"
ButtonCallCommand == "Cabin"
ButtonTypes == {ButtonCallUp, ButtonCallDown, ButtonCallCommand}
Floors == 0 .. MaxFloor

OrderButton == [Type : ButtonTypes, Floor : Floors]
Order == [Button : OrderButton, TakenBy : Addr \cup {NoIP}, Done : BOOLEAN]

\* order.OrdersEqual: equality of the button only
OrdersEqual(order1, order2) ==
    /\ order1.Button.Floor = order2.Button.Floor
    /\ order1.Button.Type = order2.Button.Type

\* order.OrderNew: no order of orders has the request's button
OrderNew(request, orders) ==
    \A i \in 1 .. Len(orders) : ~OrdersEqual(request, orders[i])

(***************************************************************************)
(* updateOrders: the reconciliation of orders with a slave's requests.     *)
(***************************************************************************)
\* a cabin request keeps the TakenBy it came with
StampSenderKeeping(request, sender) ==
    request

\* addNewOrders, lines 225-227: a cabin request is taken by its sender
StampSender(request, sender) ==
    IF request.Button.Type = ButtonCallCommand
    THEN [request EXCEPT !.TakenBy = sender]
    ELSE request

\* addNewOrders, the loop over requests from index k on: each request is
\* compared with the orders as they have grown so far
RECURSIVE AddFrom(_, _, _, _)
AddFrom(requests, orders, sender, k) ==
    IF k > Len(requests)
    THEN orders
    ELSE LET request == StampSender(requests[k], sender)
         IN  AddFrom(requests,
                     IF OrderNew(request, orders)
                     THEN Append(orders, request)
                     ELSE orders,
                     sender, k + 1)

\* every request is compared with the orders as they were before the batch
RECURSIVE AddFromOld(_, _, _, _, _)
AddFromOld(requests, old, grown, sender, k) ==
    IF k > Len(requests)
    THEN grown
    ELSE LET request == StampSender(requests[k], sender)
         IN  AddFromOld(requests, old,
                        IF OrderNew(request, old)
                        THEN Append(grown, request)
                        ELSE grown,
                        sender, k + 1)

addNewOrdersAgainstOld(requests, orders, sender) ==
    AddFromOld(requests, orders, orders, sender, 1)

addNewOrders(requests, orders, sender) ==
    AddFrom(requests, orders, sender, 1)

\* an order is marked by any request for its button, done or not
MarkDoneAnyRequest(order, requests) ==
    IF \E k \in 1 .. Len(requests) : OrdersEqual(order, requests[k])
    THEN [order EXCEPT !.Done = TRUE]
    ELSE order

\* removeDoneOrders, lines 237-241: orders[i] after the inner loop
MarkDone(order, requests) ==
    IF \E k \in 1 .. Len(requests) :
           OrdersEqual(order, requests[k]) /\ requests[k].Done
    THEN [order EXCEPT !.Done = TRUE]
    ELSE order

\* orders[:i] alone: the orders behind the removed one are dropped with it
RemoveAtAndBehind(orders, i) ==
    SubSeq(orders, 1, i - 1)

\* append(orders[:i], orders[i+1:]...), with i counted from 1
RemoveAt(orders, i) ==
    SubSeq(orders, 1, i - 1) \o SubSeq(orders, i + 1, Len(orders))

\* the loop without its i--: the order that moved to index i is skipped
IndexAfterRemoveSkipping(i) ==
    i + 1

\* removeDoneOrders, lines 243-244 and the loop's i++: the index looked at
\* after the order at index i has been removed
IndexAfterRemove(i) ==
    (i - 1) + 1

\* removeDoneOrders, the loop from index i on (i counted from 1)
RECURSIVE RemoveFrom(_, _, _)
RemoveFrom(requests, orders, i) ==
    IF i > Len(orders)
    THEN orders
    ELSE LET marked == MarkDone(orders[i], requests)
         IN  IF marked.Done
             THEN RemoveFrom(requests, RemoveAt(orders, i), IndexAfterRemove(i))
             ELSE RemoveFrom(requests, orders, i + 1)

removeDoneOrders(requests, orders) ==
    RemoveFrom(requests, orders, 1)

updateOrders(requests, orders, sender) ==
    removeDoneOrders(requests, addNewOrders(requests, orders, sender))

(***************************************************************************)
(* Slave records, slave messages, MasterData.                              *)
(***************************************************************************)
\* com.Slave without its timer: the record of one address in the slaves map
\* (IP is the key); ElevData is abstracted to the floor the cabin is at
SlaveRecord == [HasTimedOut : BOOLEAN, ElevData : Floors]

NoSlaves == [a \in {} |-> [HasTimedOut |-> FALSE, ElevData |-> 0]]

\* the floors whose buttons are pressed in the model
PressedFloors == {0}

PressedButtons == [Type : ButtonTypes, Floor : PressedFloors]

\* the requests a slave may put in a message: a press of any pressed button,
\* taken by nobody or by the sender, or the done report of an order the
\* sender has taken
Requests(sender) ==
    {r \in [Button : PressedButtons, TakenBy : {NoIP, sender}, Done : BOOLEAN] :
        r.Done => r.TakenBy = sender}

\* the batches of at most n of the given requests
BatchesOf(requests, n) ==
    UNION {[1 .. k -> requests] : k \in 0 .. n}

NoData == [kind |-> "none"]

\* com.MasterData, lines 178-182
MasterData(b, o, s) ==
    [kind |-> "MasterData", AssignedBackup |-> b, Orders |-> o, Slaves |-> s]

(***************************************************************************)
(* delegation.DelegateWork: every hall order is given to the slave, among  *)
(* those that have not timed out, with the least cost (the distance from   *)
(* the cabin's floor to the order's floor), ties going to the least        *)
(* address; cabin orders keep their owner; with no such slave the call     *)
(* fails and nothing changes.                                              *)
(***************************************************************************)
LiveSlaves(s) ==
    {a \in DOMAIN s : ~s[a].HasTimedOut}

IsHall(order) ==
    order.Button.Type # ButtonCallCommand

Abs(x) ==
    IF x < 0 THEN -x ELSE x

Cost(slave, order) ==
    Abs(slave.ElevData - order.Button.Floor)

\* the position of an address in the address ordering
Rank(a) ==
    CHOOSE i \in 1 .. Len(AddrOrder) : AddrOrder[i] = a

Cheapest(s, order) ==
    CHOOSE a \in LiveSlaves(s) :
        \A b \in LiveSlaves(s) :
            \/ Cost(s[a], order) < Cost(s[b], order)
            \/ Cost(s[a], order) = Cost(s[b], order) /\ Rank(a) <= Rank(b)

DelegateWork(s, o) ==
    IF LiveSlaves(s) = {}
    THEN o
    ELSE [i \in 1 .. Len(o) |->
             IF IsHall(o[i])
             THEN [o[i] EXCEPT !.TakenBy = Cheapest(s, o[i])]
             ELSE o[i]]

(***************************************************************************)
(* State.                                                                  *)
(***************************************************************************)
VARIABLES
    argSelfAsBackup,  \* main: the -selfAsBackup flag handed to InitMaster
    initialOrders,    \* InitMaster's parameter
    initialSlaves,    \* InitMaster's parameter
    pc,               \* "awaitBackup": InitMaster's select (phase A);
                      \* "loop": masterLoop's select (phase B);
                      \* "send": masterLoop blocked on events.ToSlaves <- ...
    selfAsBackup,     \* InitMaster's local selfAsBackup
    deadlineArmed,    \* backupDeadlineTimer is running
    deadlineFired,    \* backupDeadlineTimer.C holds a value
    orders,           \* orders of InitMaster, or of the running masterLoop
    slaves,           \* slaves of InitMaster, or of the running masterLoop
    backup,           \* masterLoop's backup (NoIP while in InitMaster)
    aliveArmed,       \* per address: the record's AliveTimer is running
    timeoutPending,   \* per address: listenForTimeout holds a timeout for
                      \* the running masterLoop's slaveTimedOut channel
    ToSlaves,         \* the message masterLoop is handing to events.ToSlaves
    saved,            \* backupData.json has been written
    doneProcessed     \* history: the buttons of initialOrders for which a
                      \* done request has been processed by masterLoop

vars == <<argSelfAsBackup, initialOrders, initialSlaves, pc, selfAsBackup,
          deadlineArmed, deadlineFired, orders, slaves, backup, aliveArmed,
          timeoutPending, ToSlaves, saved, doneProcessed>>

NoTimers == [a \in Addr |-> FALSE]

MkOrder(type, floor, takenBy) ==
    [Button |-> [Type |-> type, Floor |-> floor],
     TakenBy |-> takenBy, Done |-> FALSE]

\* what InitMaster is started with: main's cold start (nil, nil, flag), or
\* the last snapshot a backup received from the master it replaces
Starts ==
    {[orders |-> << >>, slaves |-> NoSlaves, flag |-> f] : f \in BOOLEAN}
    \cup
    {[orders |-> <<MkOrder(ButtonCallUp, 0, "B"),
                   MkOrder(ButtonCallCommand, 0, "B")>>,
      slaves |-> [a \in {"A", "B"} |->
                     [HasTimedOut |-> FALSE, ElevData |-> 0]],
      flag |-> FALSE],
     [orders |-> <<MkOrder(ButtonCallCommand, 0, "A")>>,
      slaves |-> [a \in {"A", "B"} |->
                     [HasTimedOut |-> (a = "B"), ElevData |-> 0]],
      flag |-> FALSE]}

\* InitMaster, lines 88-92
Init ==
    \E st \in Starts :
        /\ argSelfAsBackup = st.flag
        /\ initialOrders = st.orders
        /\ initialSlaves = st.slaves
        /\ pc = "awaitBackup"
        /\ selfAsBackup = FALSE
        /\ deadlineArmed = TRUE
        /\ deadlineFired = FALSE
        /\ orders = st.orders
        /\ slaves = st.slaves
        /\ backup = NoIP
        /\ aliveArmed = NoTimers
        /\ timeoutPending = NoTimers
        /\ ToSlaves = NoData
        /\ saved = FALSE
        /\ doneProcessed = {}

(***************************************************************************)
(* Timers.                                                                 *)
(***************************************************************************)
\* backupDeadlineTimer expires: the runtime puts a value on its channel
BackupDeadlineFires ==
    /\ deadlineArmed
    /\ deadlineArmed' = FALSE
    /\ deadlineFired' = TRUE
    /\ UNCHANGED <<argSelfAsBackup, initialOrders, initialSlaves,
                   doneProcessed, pc,
                   selfAsBackup, orders, slaves, backup, aliveArmed,
                   timeoutPending, ToSlaves, saved>>

\* listenForTimeout: the AliveTimer of a's record expires and its listener
\* takes the value and waits to hand a to slaveTimedOut
AliveTimerFires(a) ==
    /\ pc \in {"loop", "send"}
    /\ aliveArmed[a]
    /\ ~timeoutPending[a]
    /\ aliveArmed' = [aliveArmed EXCEPT ![a] = FALSE]
    /\ timeoutPending' = [timeoutPending EXCEPT ![a] = TRUE]
    /\ UNCHANGED <<argSelfAsBackup, initialOrders, initialSlaves,
                   doneProcessed, pc,
                   selfAsBackup, deadlineArmed, deadlineFired, orders, slaves,
                   backup, ToSlaves, saved>>

(***************************************************************************)
(* InitMaster: phase A.                                                    *)
(***************************************************************************)
\* lines 97-99
InitMasterDeadline ==
    /\ pc = "awaitBackup"
    /\ deadlineFired
    /\ deadlineFired' = FALSE
    /\ selfAsBackup' = TRUE
    /\ UNCHANGED <<argSelfAsBackup, initialOrders, initialSlaves,
                   doneProcessed, pc,
                   deadlineArmed, orders, slaves, backup, aliveArmed,
                   timeoutPending, ToSlaves, saved>>

\* no address is taken as backup before backupDeadline has expired
AcceptableAfterDeadline(sender) ==
    selfAsBackup

\* line 107
AcceptableAsBackup(sender) ==
    (selfAsBackup /\ sender = myIP) \/ sender # myIP

\* masterLoop starts from no orders whatever it is handed
LoopOrdersEmpty(initOrders) ==
    << >>

\* masterLoop, lines 125-128
LoopOrders(initOrders) ==
    initOrders

\* masterLoop, lines 130-137: every restored record, under its own address
LoopSlaves(initSlaves) ==
    [a \in DOMAIN initSlaves |-> initSlaves[a]]

\* masterLoop starts no timer for the records it is handed
LoopTimersNone(initSlaves) ==
    NoTimers

\* masterLoop, lines 133 and 135: a fresh AliveTimer and listener per
\* restored record
LoopTimers(initSlaves) ==
    [a \in Addr |-> a \in DOMAIN initSlaves]

\* lines 101-108 and 122-139: a decoded slave message in phase A; its data is
\* dropped, and an acceptable sender starts masterLoop as the backup
InitMasterMessage(sender) ==
    /\ pc = "awaitBackup"
    /\ IF AcceptableAsBackup(sender)
       THEN /\ pc' = "loop"
            /\ backup' = sender
            /\ orders' = LoopOrders(orders)
            /\ slaves' = LoopSlaves(slaves)
            /\ aliveArmed' = LoopTimers(slaves)
            /\ timeoutPending' = NoTimers
            /\ UNCHANGED <<argSelfAsBackup, initialOrders, initialSlaves,
                   doneProcessed,
                           selfAsBackup, deadlineArmed, deadlineFired,
                           ToSlaves, saved>>
       ELSE UNCHANGED vars

(***************************************************************************)
(* masterLoop: phase B.                                                    *)
(***************************************************************************)
\* the sender of the latest message is the backup
NextBackupIsSender(b, sender) ==
    sender

\* lines 149-152
NextBackup(b, sender) ==
    IF b = myIP /\ sender # myIP THEN sender ELSE b

\* lines 154-168: the sender's record, created if missing
TouchSlave(s, sender, elevData) ==
    [a \in DOMAIN s \cup {sender} |->
        IF a = sender
        THEN [HasTimedOut |-> FALSE, ElevData |-> elevData]
        ELSE s[a]]

\* the buttons of initialOrders that a batch reports done
DoneOfInitial(requests) ==
    {requests[k].Button : k \in {j \in 1 .. Len(requests) : requests[j].Done}}
    \cap {initialOrders[i].Button : i \in 1 .. Len(initialOrders)}

\* lines 142-170
MasterLoopMessage(sender, message) ==
    /\ pc = "loop"
    /\ backup' = NextBackup(backup, sender)
    /\ slaves' = TouchSlave(slaves, sender, message.ElevData)
    /\ aliveArmed' = [aliveArmed EXCEPT ![sender] = TRUE]
    /\ orders' = updateOrders(message.Requests, orders, sender)
    /\ doneProcessed' = doneProcessed \cup DoneOfInitial(message.Requests)
    /\ UNCHANGED <<argSelfAsBackup, initialOrders, initialSlaves, pc,
                   selfAsBackup, deadlineArmed, deadlineFired,
                   timeoutPending, ToSlaves, saved>>

\* lines 102-105 and 144-147: a datagram that does not decode is dropped
UndecodableMessage ==
    /\ pc \in {"awaitBackup", "loop"}
    /\ UNCHANGED vars

\* the tick hands the orders on as they are
OrdersAfterTickKept(s, o) ==
    o

\* lines 173-176: the orders after the tick's call of DelegateWork
OrdersAfterTick(s, o) ==
    DelegateWork(s, o)

\* lines 172-184: delegate, build the snapshot, offer it to events.ToSlaves
MasterLoopTick ==
    /\ pc = "loop"
    /\ orders' = OrdersAfterTick(slaves, orders)
    /\ ToSlaves' = MasterData(backup, orders', slaves)
    /\ pc' = "send"
    /\ UNCHANGED <<argSelfAsBackup, initialOrders, initialSlaves,
                   doneProcessed,
                   selfAsBackup, deadlineArmed, deadlineFired, slaves, backup,
                   aliveArmed, timeoutPending, saved>>

\* lines 184-188: the network task takes the snapshot; saveToFile
SnapshotTaken ==
    /\ pc = "send"
    /\ ToSlaves' = NoData
    /\ saved' = TRUE
    /\ pc' = "loop"
    /\ UNCHANGED <<argSelfAsBackup, initialOrders, initialSlaves,
                   doneProcessed,
                   selfAsBackup, deadlineArmed, deadlineFired, orders, slaves,
                   backup, aliveArmed, timeoutPending>>

\* the record of the slave that timed out is deleted
DropTimedOut(s, a) ==
    [b \in DOMAIN s \ {a} |-> s[b]]

\* lines 192-195
MarkTimedOut(s, a) ==
    IF a \in DOMAIN s THEN [s EXCEPT ![a].HasTimedOut = TRUE] ELSE s

\* lines 201-203
LeavesLoop(a, b) ==
    a = b

\* lines 190-203, and on return lines 108-110
MasterLoopTimeout(a) ==
    /\ pc = "loop"
    /\ timeoutPending[a]
    /\ slaves' = MarkTimedOut(slaves, a)
    /\ orders' = IF a \in DOMAIN slaves
                 THEN DelegateWork(slaves', orders)
                 ELSE orders
    /\ IF LeavesLoop(a, backup)
       THEN /\ pc' = "awaitBackup"
            /\ backup' = NoIP
            /\ aliveArmed' = NoTimers
            /\ timeoutPending' = NoTimers
            /\ deadlineArmed' = TRUE
            /\ deadlineFired' \in {deadlineFired, FALSE}
       ELSE /\ timeoutPending' = [timeoutPending EXCEPT ![a] = FALSE]
            /\ UNCHANGED <<pc, backup, aliveArmed, deadlineArmed,
                           deadlineFired>>
    /\ UNCHANGED <<argSelfAsBackup, initialOrders, initialSlaves,
                   doneProcessed,
                   selfAsBackup, ToSlaves, saved>>

\* the senders and messages of the life-cycle specification: the own slave
\* and one remote slave, at most one request a message, one hall button
\* and one cabin button
LifeSenders == {"A", "B"}

LifeButtons ==
    {b \in PressedButtons : b.Type \in {ButtonCallUp, ButtonCallCommand}}

LifeRequests(sender) ==
    {r \in Requests(sender) : r.Button \in LifeButtons}

\* com.SlaveMessage as decoded by com.DecodeSlaveMessage
LifeMessages(sender) ==
    [ElevData : Floors, Requests : BatchesOf(LifeRequests(sender), 1)]

\* the master's steps: the cases of InitMaster's select, of masterLoop's
\* select and of the timers' listeners
Next ==
    \/ BackupDeadlineFires
    \/ InitMasterDeadline
    \/ \E sender \in LifeSenders : InitMasterMessage(sender)
    \/ \E sender \in LifeSenders : \E message \in LifeMessages(sender) :
           MasterLoopMessage(sender, message)
    \/ UndecodableMessage
    \/ MasterLoopTick
    \/ SnapshotTaken
    \/ \E a \in Addr : AliveTimerFires(a)
    \/ \E a \in Addr : MasterLoopTimeout(a)

Spec == Init /\ [][Next]_vars

(***************************************************************************)
(* The master's process crashes and is started again by main.  The crash   *)
(* taken here is the one right after saveToFile has written the snapshot   *)
(* the loop was handing over, so backupData.json holds the orders the      *)
(* master had when it died.                                                *)
(***************************************************************************)
\* lines 184-188 followed by a crash, then main, lines 51-54: InitMaster is
\* called with nil orders and nil slaves; nothing reads backupData.json
MasterCrashAfterSave ==
    /\ pc = "send"
    /\ saved' = TRUE
    /\ pc' = "awaitBackup"
    /\ initialOrders' = << >>
    /\ initialSlaves' = NoSlaves
    /\ orders' = << >>
    /\ slaves' = NoSlaves
    /\ selfAsBackup' = FALSE
    /\ deadlineArmed' = TRUE
    /\ deadlineFired' = FALSE
    /\ backup' = NoIP
    /\ aliveArmed' = NoTimers
    /\ timeoutPending' = NoTimers
    /\ ToSlaves' = NoData
    /\ doneProcessed' = {}
    /\ UNCHANGED argSelfAsBackup

NextCrash ==
    \/ Next
    \/ MasterCrashAfterSave

SpecCrash == Init /\ [][NextCrash]_vars

(***************************************************************************)
(* One run of masterLoop in which no timer expires: the reconciliation of  *)
(* orders under every batch of requests.  It starts where masterLoop       *)
(* starts when the remote slave's first message made it the backup.        *)
(***************************************************************************)
LoopSenders == {"A", "B"}

LoopMessages(sender) ==
    [ElevData : {0}, Requests : BatchesOf(Requests(sender), MaxRequests)]

InitLoop ==
    \E st \in {s \in Starts : ~s.flag} :
        /\ argSelfAsBackup = st.flag
        /\ initialOrders = st.orders
        /\ initialSlaves = st.slaves
        /\ pc = "loop"
        /\ selfAsBackup = FALSE
        /\ deadlineArmed = TRUE
        /\ deadlineFired = FALSE
        /\ orders = LoopOrders(st.orders)
        /\ slaves = LoopSlaves(st.slaves)
        /\ backup = "B"
        /\ aliveArmed = LoopTimers(st.slaves)
        /\ timeoutPending = NoTimers
        /\ ToSlaves = NoData
        /\ saved = FALSE
        /\ doneProcessed = {}

NextLoop ==
    \/ \E sender \in LoopSenders : \E message \in LoopMessages(sender) :
           MasterLoopMessage(sender, message)
    \/ MasterLoopTick
    \/ SnapshotTaken

SpecLoop == InitLoop /\ [][NextLoop]_vars

(***************************************************************************)
(* Properties.                                                             *)
(***************************************************************************)
Buttons(o) ==
    {o[i].Button : i \in 1 .. Len(o)}

DoneButtons(requests) ==
    {requests[k].Button : k \in {j \in 1 .. Len(requests) : requests[j].Done}}

\* C1: no-loss, the part the master owes: a hall order that is in the
\* master's orders stays there until a slave message with a done request for
\* its button is processed, also when the master crashes and is started
\* again with the backup file, holding that order, in place.
C1_NoLoss ==
    [][\A i \in 1 .. Len(orders) :
           (IsHall(orders[i]) /\ orders[i].Button \notin Buttons(orders')) =>
               \E sender \in LifeSenders :
                   \E message \in LifeMessages(sender) :
                       /\ MasterLoopMessage(sender, message)
                       /\ orders[i].Button \in DoneButtons(message.Requests)
      ]_vars

\* C2: an order leaves the master's orders only in a step that processes a
\* slave message holding a done request for the order's button, or when the
\* order itself was flagged done; no tick, timeout or phase change removes
\* an order.
C2_RemovedOnlyByDone ==
    [][\A i \in 1 .. Len(orders) :
           orders[i].Button \notin Buttons(orders') =>
               \/ orders[i].Done
               \/ \E sender \in LifeSenders :
                      \E message \in LifeMessages(sender) :
                          /\ MasterLoopMessage(sender, message)
                          /\ orders[i].Button \in DoneButtons(message.Requests)
      ]_vars

\* C2's case: the master is back in phase A after ticks of a phase B, one of
\* the orders it started with has been removed and another order is held
C2_Witness ==
    /\ pc = "awaitBackup"
    /\ saved
    /\ orders # << >>
    /\ \E i \in 1 .. Len(initialOrders) :
           initialOrders[i].Button \notin Buttons(orders)

\* C3: no two orders of the master's orders have the same button, whatever
\* batches the slaves send, given that initialOrders has no such pair.
C3_NoDuplicateButtons ==
    \A i, j \in 1 .. Len(orders) :
        i # j => orders[i].Button # orders[j].Button

\* C3's case: the orders are what a batch that names one button twice makes
\* of no orders, and the same batch leaves them as they are
C3_Witness ==
    /\ initialOrders = << >>
    /\ \E sender \in LoopSenders : \E message \in LoopMessages(sender) :
           /\ Len(message.Requests) = 2
           /\ message.Requests[1].Button = message.Requests[2].Button
           /\ orders = updateOrders(message.Requests, << >>, sender)
           /\ Len(orders) = 1

\* C4: wherever the loop can take a message, applying updateOrders with the
\* same message a second time, directly after the first, leaves the orders
\* as the first application made them.
C4_Idempotent ==
    pc = "loop" =>
        \A sender \in LoopSenders : \A message \in LoopMessages(sender) :
            LET once == updateOrders(message.Requests, orders, sender)
            IN  updateOrders(message.Requests, once, sender) = once

\* C4's case: a batch whose first application removes two orders next to
\* each other and keeps the third
C4_Witness ==
    pc = "loop" /\ \E sender \in LoopSenders : \E message \in LoopMessages(sender) :
        LET once == updateOrders(message.Requests, orders, sender)
        IN  /\ Len(orders) = 3
            /\ Len(once) = 1
            /\ once[1] = orders[3]
            /\ updateOrders(message.Requests, once, sender) = once
IsCabin(order) ==
    order.Button.Type = ButtonCallCommand

\* C5: a cabin order enters the master's orders only in a step that
\* processes a message holding a request for its button, taken by the sender
\* of that message; and as long as the order stays, no message, tick or
\* timeout changes who has taken it.
C5_CabinLocality ==
    [][/\ \A j \in 1 .. Len(orders') :
              (IsCabin(orders'[j]) /\ orders'[j].Button \notin Buttons(orders)) =>
                  \E sender \in LifeSenders :
                      \E message \in LifeMessages(sender) :
                          /\ MasterLoopMessage(sender, message)
                          /\ orders'[j].Button \in Buttons(message.Requests)
                          /\ orders'[j].TakenBy = sender
       /\ \A i \in 1 .. Len(orders) : \A j \in 1 .. Len(orders') :
              (IsCabin(orders[i]) /\ orders'[j].Button = orders[i].Button) =>
                  orders'[j].TakenBy = orders[i].TakenBy
      ]_vars

\* C5's case: after a cold start the remote slave's cabin order is broadcast
\* as taken by it although that slave has timed out and the own slave is live
C5_Witness ==
    /\ initialOrders = << >>
    /\ pc = "send"
    /\ "B" \in DOMAIN slaves
    /\ slaves["B"].HasTimedOut
    /\ "A" \in LiveSlaves(slaves)
    /\ \E i \in 1 .. Len(ToSlaves.Orders) :
           /\ IsCabin(ToSlaves.Orders[i])
           /\ ToSlaves.Orders[i].TakenBy = "B"

\* C6: the first broadcast of a master started with (initialOrders,
\* initialSlaves) holds every order of initialOrders for whose button no done
\* request has been processed, and a record for every address of
\* initialSlaves.
C6_PromotionKeepsState ==
    (pc = "send" /\ ~saved) =>
        /\ \A i \in 1 .. Len(initialOrders) :
               \/ initialOrders[i].Button \in Buttons(ToSlaves.Orders)
               \/ initialOrders[i].Button \in doneProcessed
        /\ DOMAIN initialSlaves \subseteq DOMAIN ToSlaves.Slaves

\* C6's case: the first broadcast of a master started from a snapshot of two
\* orders and two slaves, one of the orders reported done before it
C6_Witness ==
    /\ pc = "send"
    /\ ~saved
    /\ Len(initialOrders) = 2
    /\ DOMAIN initialSlaves = {"A", "B"}
    /\ Cardinality(doneProcessed) = 1
    /\ Len(ToSlaves.Orders) >= 1
\* C7: in phase A a message from a remote address starts phase B with that
\* address as backup; a message from the master's own address does so only
\* if the selfAsBackup flag is set or the backupDeadline timer started for
\* this phase A has expired.
C7_BackupAcceptability ==
    [][pc = "awaitBackup" =>
           /\ \A sender \in LifeSenders \ {myIP} :
                  InitMasterMessage(sender) =>
                      (pc' = "loop" /\ backup' = sender)
           /\ (pc' = "loop" /\ backup' = myIP) =>
                  (argSelfAsBackup \/ ~deadlineArmed)
      ]_vars

\* C8: started by main with selfAsBackup set, the master in phase A takes a
\* message from its own address as the start of phase B, with itself as
\* backup, whether or not backupDeadline has expired.
C8_SelfAsBackupFlag ==
    (pc = "awaitBackup" /\ argSelfAsBackup) =>
        ENABLED (/\ InitMasterMessage(myIP)
                 /\ pc' = "loop"
                 /\ backup' = myIP)

\* a step that processes a decoded message from address a
Receives(a) ==
    \/ InitMasterMessage(a)
    \/ \E message \in LifeMessages(a) : MasterLoopMessage(a, message)

\* C9: once the backup sends no more messages the master leaves phase B for
\* good as far as that backup goes, and phase A hands the orders and slaves
\* it was left with on to the next phase B.
C9_SilentBackupIsReplaced ==
    /\ \A a \in LifeSenders :
           <>[][~Receives(a)]_vars => <>[](backup # a)
    /\ [][pc = "awaitBackup" => (orders' = orders /\ slaves' = slaves)]_vars

\* C10: back in phase A after phase B, the master still has a step that
\* puts a MasterData snapshot on ToSlaves.
C10_BroadcastsInPhaseA ==
    (pc = "awaitBackup" /\ saved) =>
        ENABLED (Next /\ ToSlaves' # NoData)

\* C11: in phase A, also after the loss of a backup, a message from a remote
\* address starts phase B with its sender as backup, and in a phase B started
\* with the own address as backup a message from a remote address makes its
\* sender the backup; while phase B lasts a remote backup is not replaced,
\* and every snapshot offered for broadcast names the backup of that moment.
C11_BackupReinstated ==
    /\ [](pc = "awaitBackup" =>
              \A sender \in LifeSenders \ {myIP} :
                  ENABLED (/\ InitMasterMessage(sender)
                           /\ pc' = "loop"
                           /\ backup' = sender))
    /\ []((pc = "loop" /\ backup = myIP) =>
              \A sender \in LifeSenders \ {myIP} :
                  \A message \in LifeMessages(sender) :
                      ENABLED (/\ MasterLoopMessage(sender, message)
                               /\ backup' = sender))
    /\ [][(pc \in {"loop", "send"} /\ backup # myIP /\ pc' # "awaitBackup") =>
              backup' = backup]_vars
    /\ [](pc = "send" => ToSlaves.AssignedBackup = backup)

\* C11's case: after a cold start the remote slave was backup, timed out and
\* so sent the master back to phase A; its next message made it backup again
\* and the broadcast names it, its record still marked timed out
C11_Witness ==
    /\ initialSlaves = NoSlaves
    /\ pc = "send"
    /\ ToSlaves.AssignedBackup = "B"
    /\ "B" \in DOMAIN ToSlaves.Slaves
    /\ ToSlaves.Slaves["B"].HasTimedOut

\* C12: every snapshot offered for broadcast names as backup an address that
\* has a record in the snapshot's slaves.
C12_BackupIsKnownSlave ==
    pc = "send" => ToSlaves.AssignedBackup \in DOMAIN ToSlaves.Slaves

\* a hall order of the snapshot is taken by nobody or by a slave whose
\* record in the snapshot has not timed out
TakenByNobodyOrLive(data, order) ==
    \/ order.TakenBy = NoIP
    \/ /\ order.TakenBy \in DOMAIN data.Slaves
       /\ ~data.Slaves[order.TakenBy].HasTimedOut

\* C13 as stated: in every snapshot offered for broadcast every hall order
\* is taken by nobody or by a slave that has not timed out.
C13_HallOrdersTakenByLive ==
    pc = "send" =>
        \A i \in 1 .. Len(ToSlaves.Orders) :
            IsHall(ToSlaves.Orders[i]) =>
                TakenByNobodyOrLive(ToSlaves, ToSlaves.Orders[i])

\* C13, amended: in every snapshot offered for broadcast in which some slave
\* has not timed out, every hall order is taken by nobody or by a slave that
\* has not timed out.
C13_HallOrdersTakenByLiveIfAny ==
    (pc = "send" /\ LiveSlaves(ToSlaves.Slaves) # {}) =>
        \A i \in 1 .. Len(ToSlaves.Orders) :
            IsHall(ToSlaves.Orders[i]) =>
                TakenByNobodyOrLive(ToSlaves, ToSlaves.Orders[i])

\* C13's case: a snapshot with a hall order, a slave that has timed out and
\* a slave that has not, in a run that began with the hall order taken by
\* the slave that has timed out since
C13_Witness ==
    /\ pc = "send"
    /\ Len(initialOrders) = 2
    /\ initialOrders[1].TakenBy = "B"
    /\ "B" \in DOMAIN ToSlaves.Slaves
    /\ ToSlaves.Slaves["B"].HasTimedOut
    /\ LiveSlaves(ToSlaves.Slaves) # {}
    /\ \E i \in 1 .. Len(ToSlaves.Orders) : IsHall(ToSlaves.Orders[i])

\* C14: the step that handles the timeout of address a keeps every record,
\* sets HasTimedOut on a's record, if there is one, and changes no other
\* field of any record; and no step of a master, phase changes included,
\* takes an address out of slaves.
C14_TimeoutKeepsRecords ==
    [][/\ DOMAIN slaves \subseteq DOMAIN slaves'
       /\ \A a \in Addr :
              MasterLoopTimeout(a) =>
                  /\ DOMAIN slaves' = DOMAIN slaves
                  /\ \A b \in DOMAIN slaves :
                         /\ slaves'[b].ElevData = slaves[b].ElevData
                         /\ slaves'[b].HasTimedOut =
                                (slaves[b].HasTimedOut \/ b = a)
      ]_vars

\* C14's case: after a cold start two slaves became known, the backup among
\* them timed out, and the master, back in phase A, holds both records
C14_Witness ==
    /\ initialSlaves = NoSlaves
    /\ pc = "awaitBackup"
    /\ DOMAIN slaves = {"A", "B"}
    /\ slaves["B"].HasTimedOut
    /\ ~slaves["A"].HasTimedOut

\* C15: whatever batch the loop takes, every hall order that addNewOrders
\* appends to the orders is taken by nobody.
C15_HallRequestStoredUnassigned ==
    pc = "loop" =>
        \A sender \in LoopSenders : \A message \in LoopMessages(sender) :
            LET added == addNewOrders(message.Requests, orders, sender)
            IN  \A j \in Len(orders) + 1 .. Len(added) :
                    IsHall(added[j]) => added[j].TakenBy = NoIP

\* C16: whatever batch the loop takes, for every cabin request of the batch
\* that is not done, and whose button the batch does not report done, the
\* orders after updateOrders hold a cabin order of that floor taken by the
\* sender.
C16_CabinCallOfEverySlaveStored ==
    pc = "loop" =>
        \A sender \in LoopSenders : \A message \in LoopMessages(sender) :
            LET updated == updateOrders(message.Requests, orders, sender)
            IN  \A k \in 1 .. Len(message.Requests) :
                    (/\ IsCabin(message.Requests[k])
                     /\ ~message.Requests[k].Done
                     /\ message.Requests[k].Button
                            \notin DoneButtons(message.Requests)) =>
                        \E j \in 1 .. Len(updated) :
                            /\ updated[j].Button = message.Requests[k].Button
                            /\ updated[j].TakenBy = sender

\* the buttons of a sequence of orders, in its order
ButtonSeq(o) ==
    [i \in 1 .. Len(o) |-> o[i].Button]

\* the orders of o that are not done and whose button is not in done
KeptOrders(o, done) ==
    LET Keep(order) == ~order.Done /\ order.Button \notin done
    IN  SelectSeq(o, Keep)

\* the buttons that a batch brings in: of each button that is neither in o
\* nor in done the first request, in the order of the batch
BroughtIn(requests, o, done) ==
    LET first == {k \in 1 .. Len(requests) :
                      /\ requests[k].Button \notin Buttons(o)
                      /\ requests[k].Button \notin done
                      /\ \A j \in 1 .. k - 1 :
                             requests[j].Button # requests[k].Button}
        place(k) == Cardinality({j \in first : j <= k})
    IN  [n \in 1 .. Cardinality(first) |->
            requests[CHOOSE k \in first : place(k) = n].Button]

\* C17: whatever batch the loop takes, the orders after updateOrders hold no
\* done order and no order whose button the batch reports done; the other
\* orders held before come first, unchanged and in their order, followed by
\* one order for each new button of the batch, in the order of the batch.
C17_UpdateOrdersResult ==
    pc = "loop" =>
        \A sender \in LoopSenders : \A message \in LoopMessages(sender) :
            LET requests == message.Requests
                done == DoneButtons(requests)
                kept == KeptOrders(orders, done)
                updated == updateOrders(requests, orders, sender)
            IN  /\ \A j \in 1 .. Len(updated) :
                       ~updated[j].Done /\ updated[j].Button \notin done
                /\ Len(updated) >= Len(kept)
                /\ SubSeq(updated, 1, Len(kept)) = kept
                /\ ButtonSeq(updated) =
                       ButtonSeq(kept) \o BroughtIn(requests, orders, done)

\* C17's case: three orders are held and a batch reports the second and the
\* third done; the first alone is left
C17_Witness ==
    /\ pc = "loop"
    /\ Len(orders) = 3
    /\ \E sender \in LoopSenders : \E message \in LoopMessages(sender) :
           /\ DoneButtons(message.Requests) =
                  {orders[2].Button, orders[3].Button}
           /\ updateOrders(message.Requests, orders, sender) = <<orders[1]>>

C19_NoStaleTimeout ==
    [][\A a \in Addr : MasterLoopTimeout(a) => ~aliveArmed[a]]_vars

Fairness ==
    /\ WF_vars(BackupDeadlineFires)
    /\ WF_vars(SnapshotTaken)
    /\ SF_vars(InitMasterDeadline)
    /\ SF_vars(MasterLoopTick)
    /\ \A a \in Addr : WF_vars(AliveTimerFires(a))
    /\ \A a \in Addr : SF_vars(MasterLoopTimeout(a))

FairSpec == Spec /\ Fairness

(***************************************************************************)
(* Every AliveTimer has the period slaveTimeoutPeriod, and those of the    *)
(* restored records are started together when phase B starts.  A timer     *)
(* that is started with one phase B after the other, and that no message   *)
(* restarts, therefore expires in one of them.                             *)
(***************************************************************************)
TimerFairness ==
    /\ Fairness
    /\ \A a \in Addr : SF_vars(AliveTimerFires(a))

\* the messages of the specification of the timers: they report the
\* cabin's floor and no requests, which no timer depends on
TimerMessages(sender) ==
    [ElevData : Floors, Requests : {<< >>}]

NextTimers ==
    \/ BackupDeadlineFires
    \/ InitMasterDeadline
    \/ \E sender \in LifeSenders : InitMasterMessage(sender)
    \/ \E sender \in LifeSenders : \E message \in TimerMessages(sender) :
           MasterLoopMessage(sender, message)
    \/ UndecodableMessage
    \/ MasterLoopTick
    \/ SnapshotTaken
    \/ \E a \in Addr : AliveTimerFires(a)
    \/ \E a \in Addr : MasterLoopTimeout(a)

FairTimerSpec == Init /\ [][NextTimers]_vars /\ TimerFairness

====
